---- MODULE Spec2Model ----
(***************************************************************************)
(* smirror: the rule-set loader (config.Resources), the cron coordinator   *)
(* (cron.service: Tick, processResource, notifyAll with its worker pool)   *)
(* and the processed-objects ledger it consults.                           *)
(*                                                                         *)
(* Three specifications share the variables:                               *)
(*   Spec        the cron service: New, then ticks over the rule snapshot  *)
(*   SpecReload  the rule-set loader step by step, with a concurrent       *)
(*               reader of Resources.Rules                                 *)
(*   SpecPool    one notifyAll call with the pool of Limit workers and up  *)
(*               to MaxPending pending objects                             *)
(***************************************************************************)
EXTENDS Integers, Sequences, FiniteSets, TLC

\* ------------------------------------------------------------------ bounds
MaxTicks == 2
MaxTime == 2
MaxPending == 52
MaxInits == 2
MaxCallers == 3
MaxObjects == 3
MaxEntries == 3
MaxActions == 2

\* ----------------------------------------------------------- configuration
\* config.TimeWindow, in the time unit of the model
TimeWindow == 1

\* ------------------------------------------------------- program constants
Limit == 50

\* --------------------------------------------------------------- variables
VARIABLES
    \* config.Resources
    Rules,          \* Resources.Rules: the rule snapshot readers see
    initialRules,   \* Resources.initialRules: the seed
    inited,         \* Resources.inited: 0 or 1
    BaseURL,        \* Resources.BaseURL: "" or the rule directory
    meta,           \* base.Meta: the watcher's cached fingerprint of BaseURL
    files,          \* the store under BaseURL: file name -> content
    \* the loader, step by step (SpecReload)
    lpc,            \* position of the loading goroutine
    routesObject,   \* loadAllResources: the listing still to be loaded
    before,         \* Resources.Rules when the running load started
    loadErr,        \* the error the last load returned (NoErr for nil)
    observed,       \* what the concurrent reader last read from Resources.Rules
    \* cron.service
    pc,             \* position of the coordinator goroutine
    now,            \* wall clock, in units of time
    objMod,         \* the source store: file -> modification time
    ledger,         \* meta.Service: set of [fp, seen]
    secrets,        \* secret.Service: the rules whose resources hold credentials
    tickRules,      \* tick: the slice ranged over, read once at the loop start
    ruleIdx,        \* tick: index of the rule being processed
    pending,        \* processResource: the pending objects of the current rule
    queue,          \* notifyAll: the queue channel's buffer
    enqueued,       \* notifyAll: how many objects the producer has sent
    closed,         \* notifyAll: close(queue) was called
    busy,           \* notifyAll: objects inside notify, one worker each
    errorChannel,   \* notifyAll: the error channel's buffer
    response,       \* the Response of the running (or last) Tick
    \* history, written but never read by the program
    tickNo,         \* number of ticks started
    changedSeen,    \* what ReloadIfNeeded's watcher reported in this tick
    filesRead,      \* rule files downloaded by the last ReloadIfNeeded
    firstRules,     \* Resources.Rules at the first call of Init
    initCalls,      \* number of calls of Resources.Init
    cur,            \* what the running (or last) tick did
    prev,           \* what the tick before it did
    \* the worker pool by numbers (SpecPool)
    pool,
    \* mirror.Fn: one invocation of the event handler (SpecFn)
    handler,
    \* contract.Response under concurrent AddURL calls (SpecResponse)
    dest,
    \* notifyAll with one goroutine per object (SpecNotifyAll)
    fanout,
    \* appendResources over a storage tree (SpecList)
    walk,
    \* job.Actions.Run: one run of the completion actions (SpecJob)
    job

vars == <<Rules, initialRules, inited, BaseURL, meta, files,
          lpc, routesObject, before, loadErr, observed,
          pc, now, objMod, ledger, secrets, tickRules, ruleIdx, pending,
          queue, enqueued, closed, busy, errorChannel, response,
          tickNo, changedSeen, filesRead, firstRules, initCalls, cur, prev, pool,
          handler, dest, fanout, walk, job>>

rsVars == <<Rules, initialRules, inited, BaseURL, meta, files>>
loadVars == <<lpc, routesObject, before, loadErr, observed>>
histVars == <<changedSeen, filesRead, firstRules, initCalls>>
notifyVars == <<queue, enqueued, closed, busy, errorChannel>>
otherVars == <<handler, dest, fanout, walk, job>>
tickVars == <<pc, objMod, ledger, secrets, tickRules, ruleIdx, pending, response,
              tickNo, cur, prev>>

\* ------------------------------------------------------------------ errors
\* An error is the sequence of its messages, outermost first; nil is <<>>.
NoErr == <<>>

\* the parts of the program a specification does not run
OthersAtRest ==
    handler = <<>> /\ dest = <<>> /\ fanout = <<>> /\ walk = <<>> /\ job = <<>>

\* errors.Wrapf: msg is the message with its arguments
Wrapf(err, msg) == msg \o err

\* ---------------------------------------------------------------- the data
RuleIds == {"r1", "r2", "r3"}

\* the source directory each rule scans, and its suffix filter
SourceURL == [r1 |-> "root", r2 |-> "root/sub", r3 |-> "root"]
Suffix == [r1 |-> "", r2 |-> ".csv", r3 |-> ".txt"]

\* the source store: root holds a.txt and the directory sub, sub holds b.csv
SrcFiles == {"root/a.txt", "root/sub/b.csv"}
SrcDirs == {"root", "root/sub"}
\* a wider store, for listings of every shape: root also holds c.csv and the
\* directory sub2 with d.txt, and sub also holds the directory deep with e.csv
WalkFiles == SrcFiles \cup {"root/c.csv", "root/sub2/d.txt", "root/sub/deep/e.csv"}
WalkDirs == SrcDirs \cup {"root/sub2", "root/sub/deep"}
Parent == [x \in WalkFiles \cup WalkDirs |->
             CASE x = "root/a.txt" -> "root"
               [] x = "root/sub/b.csv" -> "root/sub"
               [] x = "root/sub" -> "root"
               [] x = "root/sub2" -> "root"
               [] x = "root/c.csv" -> "root"
               [] x = "root/sub2/d.txt" -> "root/sub2"
               [] x = "root/sub/deep" -> "root/sub"
               [] x = "root/sub/deep/e.csv" -> "root/sub/deep"
               [] OTHER -> ""]
Ext == [x \in WalkFiles |-> IF x \in {"root/a.txt", "root/sub2/d.txt"} THEN ".txt" ELSE ".csv"]
Size == [x \in SrcFiles |-> IF x = "root/a.txt" THEN 6 ELSE 9]

\* a rule file decodes to an array of rules, or fails to decode
Bad == <<"!bad">>
RuleFileNames == <<"f1.json", "f2.json">>
Absent == <<"!absent">>


\* =========================================================================
\* config.Resources: the rule-set loader
\* =========================================================================
RulesDir == "rules"

IsDirURL(url) == url = RulesDir \/ url \in SrcDirs

\* bytes of a rule file, by what it holds
FileSize(c) == IF c = Bad THEN 3 ELSE 2 + 10 * Len(c)

Present(fs) == {i \in 1..Len(RuleFileNames) : fs[RuleFileNames[i]] # Absent}

RECURSIVE SumSizes(_, _)
SumSizes(fs, S) ==
    IF S = {} THEN 0
    ELSE LET i == CHOOSE x \in S : TRUE
         IN FileSize(fs[RuleFileNames[i]]) + SumSizes(fs, S \ {i})

\* base.Meta: the aggregate of the files under BaseURL the watcher compares,
\* here their count and the sum of their sizes (every edit of a rule file in
\* this model changes one of the two, so their modification times add nothing)
MetaFp(fs) ==
    LET P == Present(fs)
    IN <<Cardinality(P), SumSizes(fs, P)>>

Unprimed == <<>>

\* base.Meta.HasChanged: the outcomes of one call. The call that primes the
\* watcher may report either way; a later call reports a change iff the
\* aggregate differs from the cached one; the listing it needs can fail.
HasChanged(m, fs) ==
    {[changed |-> FALSE, err |-> <<"failed to list", RulesDir>>, meta |-> m]}
    \cup (IF m = Unprimed
          THEN {[changed |-> c, err |-> NoErr, meta |-> MetaFp(fs)] : c \in BOOLEAN}
          ELSE {[changed |-> (MetaFp(fs) # m), err |-> NoErr, meta |-> MetaFp(fs)]})

\* fs.Exists(BaseURL): a directory of an object store exists while it holds a file
Exists(fs) == Present(fs) # {}

\* fs.List(BaseURL, suffix ".json"): the directory itself, then its files by name
RECURSIVE ListFrom(_, _)
ListFrom(fs, i) ==
    IF i > Len(RuleFileNames) THEN <<>>
    ELSE (IF fs[RuleFileNames[i]] # Absent THEN <<RuleFileNames[i]>> ELSE <<>>)
         \o ListFrom(fs, i + 1)

ListRules(fs) == <<RulesDir>> \o ListFrom(fs, 1)

\* what can go wrong in the store during one load: nothing, the Exists call,
\* the List call, or the Download of one listed file
Faults(fs) == {"none", "exists", "list"} \cup {RuleFileNames[i] : i \in Present(fs)}

\* storage.Download + json Decode of one listed object, appended to Rules.
\* A failure leaves Rules as it is at that point and returns the error.
loadResources(rules, object, fs, fault) ==
    IF fault = object
    THEN [Rules |-> rules, err |-> <<"failed to download", object>>]
    ELSE IF fs[object] = Bad
    THEN [Rules |-> rules, err |-> Wrapf(<<"invalid character">>, <<"failed to decode", object>>)]
    ELSE [Rules |-> rules \o fs[object], err |-> NoErr]

\* the loop of loadAllResources over the listing; reads counts the downloads
RECURSIVE loadLoop(_, _, _, _, _)
loadLoop(rules, objects, fs, fault, reads) ==
    IF objects = <<>> THEN [Rules |-> rules, err |-> NoErr, reads |-> reads]
    ELSE IF IsDirURL(Head(objects)) THEN loadLoop(rules, Tail(objects), fs, fault, reads)
    ELSE LET r == loadResources(rules, Head(objects), fs, fault)
         IN IF r.err # NoErr
            THEN [Rules |-> r.Rules, err |-> r.err, reads |-> reads + 1]
            ELSE loadLoop(r.Rules, Tail(objects), fs, fault, reads + 1)

\* loadAllResources run to its return: what it leaves in Rules, and its error
loadAllResources(rules, seed, base, fs, fault) ==
    IF base = "" THEN [Rules |-> rules, err |-> NoErr, reads |-> 0]
    ELSE IF fault = "exists"
    THEN [Rules |-> seed, err |-> <<"failed to check", base>>, reads |-> 0]
    ELSE IF ~Exists(fs) THEN [Rules |-> seed, err |-> NoErr, reads |-> 0]
    ELSE IF fault = "list"
    THEN [Rules |-> seed, err |-> <<"failed to list", base>>, reads |-> 0]
    ELSE loadLoop(seed, ListRules(fs), fs, fault, 0)

\* loadAndInit: the load, then Rule.Init on each rule (which sets the project
\* of a rule and changes nothing the coordinator reads)
loadAndInit(rules, seed, base, fs, fault) == loadAllResources(rules, seed, base, fs, fault)

\* initRules: the seed is captured by the first call only
initRulesAlways(rules, seed, flag) == [initialRules |-> rules, inited |-> 1]

initRules(rules, seed, flag) ==
    IF flag = 0
    THEN [initialRules |-> IF Len(rules) > 0 THEN rules ELSE <<>>, inited |-> 1]
    ELSE [initialRules |-> seed, inited |-> flag]

\* ReloadIfNeeded run to its return, given the watcher's answer hc
ReloadIfNeededAlways(rules, seed, base, fs, hc, fault) ==
    LET l == loadAndInit(rules, seed, base, fs, fault)
    IN [Rules |-> l.Rules, changed |-> TRUE, err |-> l.err, reads |-> l.reads]

ReloadIfNeeded(rules, seed, base, fs, hc, fault) ==
    IF hc.err # NoErr \/ ~hc.changed
    THEN [Rules |-> rules, changed |-> hc.changed, err |-> hc.err, reads |-> 0]
    ELSE LET l == loadAndInit(rules, seed, base, fs, fault)
         IN [Rules |-> l.Rules, changed |-> TRUE, err |-> l.err, reads |-> l.reads]


\* =========================================================================
\* cron/meta: the ledger of processed objects
\* =========================================================================
\* the retention horizon New gives the ledger: config.TimeWindow.Duration*2
Retention == TimeWindow * 2

\* the fingerprint of a listed object
Fingerprint(o) == <<o.url, o.mod, o.size>>

\* the fingerprints recorded within the retention horizon [t - Retention, t]
Retained(led, t) == {e.fp : e \in {x \in led : x.seen >= t - Retention}}

\* meta.Service.PendingResources: the candidates without a retained fingerprint
PendingResources(led, objects, t) ==
    SelectSeq(objects, LAMBDA o : Fingerprint(o) \notin Retained(led, t))

\* meta.Service.AddProcessed: the entries beyond the horizon are pruned and the
\* new fingerprints recorded as seen at t; a failed write changes nothing
AddProcessed(led, objects, t, fault) ==
    IF fault
    THEN [ledger |-> led, err |-> <<"failed to write ledger">>]
    ELSE [ledger |-> {x \in led : x.seen >= t - Retention}
                       \cup {[fp |-> Fingerprint(objects[i]), seen |-> t] : i \in 1..Len(objects)},
          err |-> NoErr]

\* =========================================================================
\* cron.service: candidates, dispatch, tick
\* =========================================================================
SrcChildren(url) ==
    CASE url = "root" -> <<"root/a.txt", "root/sub">>
      [] url = "root/sub" -> <<"root/sub/b.csv">>
      [] OTHER -> <<>>

Entry(url, mods) ==
    IF url \in SrcDirs
    THEN [url |-> url, dir |-> TRUE, mod |-> 0, size |-> 0]
    ELSE [url |-> url, dir |-> FALSE, mod |-> mods[url], size |-> Size[url]]

\* fs.List(URL, options...) with the modification-time matcher of
\* addLastModifiedTimeMatcher: the listed directory itself comes first, then
\* its sub-directories and the files modified at or after afterTime
List(url, mods, afterTime) ==
    <<Entry(url, mods)>>
    \o SelectSeq([i \in 1..Len(SrcChildren(url)) |-> Entry(SrcChildren(url)[i], mods)],
                 LAMBDA e : e.dir \/ e.mod >= afterTime)

\* matcher.Basic.Match(parent, object) with a suffix filter
Match(suffix, parent, o) == suffix = "" \/ Ext[o.url] = suffix

\* what s.fs.List returns for each URL of the source store, with the matcher
Listing(mods, afterTime) == [u \in SrcFiles \cup SrcDirs |-> List(u, mods, afterTime)]

\* appendResources: the loop over one listing, descending into directories.
\* list gives the listing s.fs.List returns for a URL; fault names the
\* directory whose List call fails, if any.
RECURSIVE appendResources(_, _, _, _, _)
RECURSIVE appendLoop(_, _, _, _, _, _)
\* a loop that passes over the first entry of a listing whatever it is
appendLoopSkipsFirst(objects, i, result, suffix, list, fault) ==
    IF i > Len(objects) THEN [result |-> result, err |-> NoErr]
    ELSE IF i = 1
    THEN appendLoop(objects, i + 1, result, suffix, list, fault)
    ELSE IF objects[i].dir
    THEN LET r == appendResources(objects[i].url, result, suffix, list, fault)
         IN IF r.err # NoErr THEN r
            ELSE appendLoop(objects, i + 1, r.result, suffix, list, fault)
    ELSE appendLoop(objects, i + 1,
                    IF Match(suffix, Parent[objects[i].url], objects[i])
                    THEN Append(result, objects[i]) ELSE result,
                    suffix, list, fault)

appendLoop(objects, i, result, suffix, list, fault) ==
    IF i > Len(objects) THEN [result |-> result, err |-> NoErr]
    ELSE IF i = 1 /\ objects[i].dir
    THEN appendLoop(objects, i + 1, result, suffix, list, fault)
    ELSE IF objects[i].dir
    THEN LET r == appendResources(objects[i].url, result, suffix, list, fault)
         IN IF r.err # NoErr THEN r
            ELSE appendLoop(objects, i + 1, r.result, suffix, list, fault)
    ELSE appendLoop(objects, i + 1,
                    IF Match(suffix, Parent[objects[i].url], objects[i])
                    THEN Append(result, objects[i]) ELSE result,
                    suffix, list, fault)

appendResources(url, result, suffix, list, fault) ==
    IF fault = url
    THEN [result |-> result, err |-> <<"failed to list", url>>]
    ELSE appendLoop(list[url], 1, result, suffix, list, fault)

\* getResourceCandidates. The returned slice is read after the call that fills
\* it returns (the Go compiler evaluates the calls of a return statement first).
getResourceCandidates(rule, mods, t, fault) ==
    IF fault = "opts"
    THEN [result |-> <<>>, err |-> <<"failed to get storage options">>]
    ELSE appendResources(SourceURL[rule], <<>>, Suffix[rule],
                         Listing(mods, t - TimeWindow), fault)

\* what can go wrong before the dispatch of one rule: the storage options,
\* the List call of a directory under the rule's source, the read of the ledger
ListFaults(rule) ==
    {"none", "opts", "pending"}
    \cup {d \in SrcDirs : d = SourceURL[rule] \/ Parent[d] = SourceURL[rule]}

\* processResource up to its call of notifyAll
processResourceHeadAll(rule, led, mods, t, fault) ==
    LET c == getResourceCandidates(rule, mods, t, fault)
    IN IF c.err # NoErr
       THEN [objects |-> <<>>, pending |-> <<>>,
             err |-> Wrapf(c.err, <<"failed to get resource candidate", SourceURL[rule]>>)]
       ELSE [objects |-> c.result, pending |-> c.result, err |-> NoErr]

processResourceHead(rule, led, mods, t, fault) ==
    LET c == getResourceCandidates(rule, mods, t, fault)
    IN IF c.err # NoErr
       THEN [objects |-> <<>>, pending |-> <<>>,
             err |-> Wrapf(c.err, <<"failed to get resource candidate", SourceURL[rule]>>)]
       ELSE IF fault = "pending"
       THEN [objects |-> c.result, pending |-> <<>>,
             err |-> Wrapf(<<"failed to load ledger">>, <<"failed to read pending resource">>)]
       ELSE [objects |-> c.result, pending |-> PendingResources(led, c.result, t), err |-> NoErr]

\* notifyAll after waitGroup.Wait: the first error read from the error channel
RECURSIVE notifyAllResult(_)
notifyAllResultNil(errs) == NoErr

notifyAllResult(errs) ==
    IF errs = <<>> THEN NoErr
    ELSE IF Head(errs) # NoErr THEN Head(errs)
    ELSE notifyAllResult(Tail(errs))

\* processResource from the return of notifyAll
processResourceTailAlways(nerr, pend, led, t, fault) ==
    LET w == AddProcessed(led, pend, t, fault)
    IN [processed |-> IF nerr # NoErr THEN <<>> ELSE pend,
        err |-> IF nerr # NoErr THEN Wrapf(nerr, <<"failed to notify all">>)
                ELSE IF w.err # NoErr THEN Wrapf(w.err, <<"failed to update processed">>)
                ELSE NoErr,
        ledger |-> w.ledger, wrote |-> TRUE]

processResourceTail(nerr, pend, led, t, fault) ==
    IF nerr # NoErr
    THEN [processed |-> <<>>, err |-> Wrapf(nerr, <<"failed to notify all">>),
          ledger |-> led, wrote |-> FALSE]
    ELSE LET w == AddProcessed(led, pend, t, fault)
         IN [processed |-> pend,
             err |-> IF w.err # NoErr THEN Wrapf(w.err, <<"failed to update processed">>)
                     ELSE NoErr,
             ledger |-> w.ledger, wrote |-> TRUE]

\* UpdateSecrets: the source and the destination resource of every rule
RECURSIVE UpdateSecrets(_)
RECURSIVE UpdateSecretsSourceOnly(_)
UpdateSecretsSourceOnly(rules) ==
    IF rules = <<>> THEN <<>>
    ELSE <<<<"Source", Head(rules)>>>> \o UpdateSecretsSourceOnly(Tail(rules))

UpdateSecrets(rules) ==
    IF rules = <<>> THEN <<>>
    ELSE <<<<"Source", Head(rules)>>, <<"Dest", Head(rules)>>>> \o UpdateSecrets(Tail(rules))

\* Matched.Add: the URLs of the processed objects
URLs(objects) == [i \in 1..Len(objects) |-> objects[i].url]

\* NewResponse
NewResponse == [Status |-> "ok", Error |-> NoErr, Matched |-> <<>>, Copied |-> {}]

\* a Tick that answers an error with a response emptied of what was done
TickResponseCleared(resp, err) ==
    IF err # NoErr
    THEN [resp EXCEPT !.Status = "error", !.Error = err, !.Matched = <<>>, !.Copied = {}]
    ELSE resp

\* Tick: the error of tick, if any, becomes the status of the response
TickResponse(resp, err) ==
    IF err # NoErr THEN [resp EXCEPT !.Status = "error", !.Error = err] ELSE resp

\* =========================================================================
\* SpecReload: the loader step by step, and a reader of Resources.Rules
\* =========================================================================
\* what the operator may put in each rule file
FileContents == [f1 |-> {Absent, Bad, <<"r2">>}, f2 |-> {Absent, Bad, <<"r3">>}]
FileKey == <<"f1", "f2">>

NotRead == [rules |-> <<>>, during |-> FALSE]

NoFiles == [n \in {RuleFileNames[i] : i \in 1..Len(RuleFileNames)} |-> Absent]

\* the record of a tick that has done nothing yet
EmptyTick ==
    [dispatched |-> [f \in SrcFiles |-> 0], ok |-> {}, failed |-> {}, recorded |-> {},
     listed |-> {}, writeFailed |-> {}, rules |-> <<>>, writes |-> {}, done |-> FALSE,
     at |-> 0, stepFailed |-> "none", batches |-> <<>>,
     lateTakes |-> {}]

\* the values the coordinator's variables have while no service runs
CronAtRest ==
    /\ pc = "new" /\ objMod = [f \in SrcFiles |-> 0] /\ ledger = {}
    /\ secrets = <<>> /\ tickRules = <<>> /\ ruleIdx = 0 /\ pending = <<>>
    /\ queue = <<>> /\ enqueued = 0 /\ closed = FALSE /\ busy = {}
    /\ errorChannel = <<>>
    /\ response = [Status |-> "", Error |-> NoErr, Matched |-> <<>>, Copied |-> {}]
    /\ tickNo = 0 /\ cur = EmptyTick /\ prev = EmptyTick

LoaderAtRest ==
    /\ lpc = [op |-> "none", at |-> "idle"] /\ routesObject = <<>>
    /\ before = <<>> /\ loadErr = NoErr
    /\ observed = NotRead
    /\ changedSeen = [changed |-> FALSE, err |-> NoErr] /\ filesRead = 0
    /\ firstRules = <<>> /\ initCalls = 0

InitReload ==
    /\ Rules \in {<<>>, <<"r1">>}
    /\ initialRules = <<>> /\ inited = 0
    /\ BaseURL \in {"", RulesDir}
    /\ meta = Unprimed
    /\ files \in {[NoFiles EXCEPT !["f1.json"] = c] : c \in {Absent, <<"r2">>}}
    /\ now = 0 /\ pool = <<>> /\ OthersAtRest
    /\ LoaderAtRest /\ CronAtRest

\* return from the running load (or from ReloadIfNeeded) with error e
LoadReturn(e) ==
    /\ lpc' = [lpc EXCEPT !.at = "idle"]
    /\ loadErr' = e
    /\ routesObject' = <<>>

\* Resources.Init up to its call of loadAndInit
RInit ==
    /\ lpc.at = "idle" /\ initCalls < MaxInits
    /\ initCalls' = initCalls + 1
    /\ firstRules' = IF initCalls = 0 THEN Rules ELSE firstRules
    /\ LET i == initRules(Rules, initialRules, inited)
       IN /\ initialRules' = i.initialRules
          /\ inited' = i.inited
    /\ meta' = Unprimed
    /\ before' = Rules
    /\ lpc' = [op |-> "Init", at |-> "load"]
    /\ filesRead' = 0
    /\ observed' = NotRead
    /\ UNCHANGED <<Rules, BaseURL, files, routesObject, loadErr, changedSeen>>
    /\ UNCHANGED <<tickVars, notifyVars, now, pool, otherVars>>

\* ReloadIfNeeded up to its call of loadAndInit, or to its return without one
RReloadIfNeeded ==
    /\ lpc.at = "idle" /\ inited = 1
    /\ \E hc \in HasChanged(meta, files) :
         /\ meta' = hc.meta
         /\ changedSeen' = [changed |-> hc.changed, err |-> hc.err]
         /\ filesRead' = 0
         /\ before' = Rules
         /\ IF hc.err # NoErr \/ ~hc.changed
            THEN /\ lpc' = [op |-> "Reload", at |-> "idle"]
                 /\ loadErr' = hc.err
            ELSE /\ lpc' = [op |-> "Reload", at |-> "load"]
                 /\ loadErr' = NoErr
    /\ observed' = NotRead
    /\ UNCHANGED <<Rules, initialRules, inited, BaseURL, files, routesObject, firstRules, initCalls>>
    /\ UNCHANGED <<tickVars, notifyVars, now, pool, otherVars>>

\* loadAllResources: the BaseURL check and r.Rules = r.initialRules
RLoadStart ==
    /\ lpc.at = "load"
    /\ IF BaseURL = ""
       THEN LoadReturn(NoErr) /\ UNCHANGED Rules
       ELSE /\ Rules' = initialRules
            /\ lpc' = [lpc EXCEPT !.at = "list"]
            /\ UNCHANGED <<routesObject, loadErr>>
    /\ UNCHANGED <<initialRules, inited, BaseURL, meta, files, before, observed, histVars>>
    /\ UNCHANGED <<tickVars, notifyVars, now, pool, otherVars>>

\* loadAllResources: fs.Exists and fs.List
RLoadList ==
    /\ lpc.at = "list"
    /\ \E fault \in {"none", "exists", "list"} :
         IF fault = "exists" THEN LoadReturn(<<"failed to check", BaseURL>>)
         ELSE IF ~Exists(files) THEN LoadReturn(NoErr)
         ELSE IF fault = "list" THEN LoadReturn(<<"failed to list", BaseURL>>)
         ELSE /\ routesObject' = ListRules(files)
              /\ lpc' = [lpc EXCEPT !.at = "loop"]
              /\ UNCHANGED loadErr
    /\ UNCHANGED <<rsVars, before, observed, histVars>>
    /\ UNCHANGED <<tickVars, notifyVars, now, pool, otherVars>>

\* loadAllResources: one round of the loop over the listing
RLoadNext ==
    /\ lpc.at = "loop"
    /\ IF routesObject = <<>>
       THEN LoadReturn(NoErr) /\ UNCHANGED <<Rules, filesRead>>
       ELSE IF IsDirURL(Head(routesObject))
       THEN /\ routesObject' = Tail(routesObject)
            /\ UNCHANGED <<Rules, lpc, loadErr, filesRead>>
       ELSE \E fault \in {"none", Head(routesObject)} :
              LET r == loadResources(Rules, Head(routesObject), files, fault)
              IN /\ Rules' = r.Rules
                 /\ filesRead' = filesRead + 1
                 /\ IF r.err # NoErr
                    THEN LoadReturn(r.err)
                    ELSE /\ routesObject' = Tail(routesObject)
                         /\ UNCHANGED <<lpc, loadErr>>
    /\ UNCHANGED <<initialRules, inited, BaseURL, meta, files, before, observed, changedSeen,
                   firstRules, initCalls>>
    /\ UNCHANGED <<tickVars, notifyVars, now, pool, otherVars>>

\* what a complete load of the present files leaves in Rules
CompleteLoad == loadAllResources(Rules, initialRules, BaseURL, files, "none")

\* a reader in another goroutine reads the field Resources.Rules
Reader ==
    /\ observed' = [rules |-> Rules, during |-> (lpc.op = "Reload" /\ lpc.at # "idle")]
    /\ UNCHANGED <<rsVars, lpc, routesObject, before, loadErr, histVars>>
    /\ UNCHANGED <<tickVars, notifyVars, now, pool, otherVars>>

\* the operator of the rule directory writes, replaces or removes a rule file
\* (between loads: a load is short next to the pace of rule edits)
ChangeFileIn(I) ==
    /\ lpc.at = "idle"
    /\ \E i \in I : \E c \in FileContents[FileKey[i]] :
         /\ files[RuleFileNames[i]] # c
         /\ files' = [files EXCEPT ![RuleFileNames[i]] = c]
    /\ UNCHANGED <<Rules, initialRules, inited, BaseURL, meta, loadVars, histVars>>
    /\ UNCHANGED <<tickVars, notifyVars, now, pool, otherVars>>

ChangeFile == ChangeFileIn(1..Len(RuleFileNames))

NextReload ==
    \/ RInit \/ RReloadIfNeeded \/ RLoadStart \/ RLoadList \/ RLoadNext
    \/ Reader \/ ChangeFile

SpecReload == InitReload /\ [][NextReload]_vars


\* =========================================================================
\* Spec: the cron service
\* =========================================================================
InitCron ==
    /\ Rules = <<"r1">>
    /\ initialRules = <<>> /\ inited = 0
    /\ BaseURL = RulesDir
    /\ meta = Unprimed
    /\ files \in {[NoFiles EXCEPT !["f1.json"] = c] : c \in {Absent, <<"r2">>}}
    /\ now = 0 /\ pool = <<>> /\ OthersAtRest
    /\ LoaderAtRest /\ CronAtRest

\* Resources.Init run to its return, as Config.Init calls it
ResourcesInit(fault) ==
    LET i == initRules(Rules, initialRules, inited)
        l == loadAndInit(Rules, i.initialRules, BaseURL, files, fault)
    IN /\ initialRules' = i.initialRules
       /\ inited' = i.inited
       /\ meta' = Unprimed
       /\ Rules' = l.Rules
       /\ before' = Rules
       /\ loadErr' = l.err
       /\ filesRead' = l.reads
       /\ initCalls' = initCalls + 1
       /\ firstRules' = IF initCalls = 0 THEN Rules ELSE firstRules
       /\ lpc' = [op |-> "Init", at |-> "idle"]
       /\ UNCHANGED <<BaseURL, files, routesObject, observed, changedSeen>>

\* New: config.Init, then the service is built
New ==
    /\ pc = "new"
    /\ \E fault \in Faults(files) :
         /\ ResourcesInit(fault)
         /\ pc' = IF loadErr' # NoErr THEN "failed" ELSE "init"
    /\ UNCHANGED <<objMod, ledger, secrets, tickRules, ruleIdx, pending, response,
                   tickNo, cur, prev, notifyVars, now, pool, otherVars>>

\* service.Init: config.Init once more, then UpdateSecrets
Init ==
    /\ pc = "init"
    /\ \E fault \in Faults(files), sfault \in BOOLEAN :
         /\ ResourcesInit(fault)
         /\ IF loadErr' # NoErr THEN pc' = "failed" /\ UNCHANGED secrets
            ELSE IF sfault THEN pc' = "failed" /\ UNCHANGED secrets
            ELSE pc' = "idle" /\ secrets' = UpdateSecrets(Rules')
    /\ UNCHANGED <<objMod, ledger, tickRules, ruleIdx, pending, response,
                   tickNo, cur, prev, notifyVars, now, pool, otherVars>>

\* Tick returns: tick's error, if any, goes into the response. (ruleIdx and
\* pending keep the values they had when tick returned.)
TickReturns(resp, err, rec) ==
    /\ response' = TickResponse(resp, err)
    /\ cur' = [rec EXCEPT !.done = TRUE]
    /\ pc' = "idle"

\* Tick and tick up to the loop over the rules: NewResponse, ReloadIfNeeded,
\* UpdateSecrets when the rules changed
TickStart ==
    /\ pc = "idle" /\ tickNo < MaxTicks
    /\ tickNo' = tickNo + 1
    /\ prev' = cur
    /\ \E hc \in HasChanged(meta, files) :
       \E fault \in (IF hc.changed THEN Faults(files) ELSE {"none"}) :
       \E sfault \in (IF hc.changed /\ fault = "none" THEN BOOLEAN ELSE {FALSE}) :
         LET r == ReloadIfNeeded(Rules, initialRules, BaseURL, files, hc, fault)
             serr == IF r.changed /\ r.err = NoErr /\ sfault
                     THEN <<"failed to init secrets">> ELSE NoErr
             err == IF r.err # NoErr THEN r.err ELSE serr
         IN /\ meta' = hc.meta
            /\ changedSeen' = [changed |-> hc.changed, err |-> hc.err]
            /\ Rules' = r.Rules
            /\ before' = Rules
            /\ loadErr' = r.err
            /\ filesRead' = r.reads
            /\ lpc' = [op |-> "Reload", at |-> "idle"]
            /\ secrets' = IF r.changed /\ err = NoErr THEN UpdateSecrets(r.Rules) ELSE secrets
            /\ IF err # NoErr
               THEN /\ TickReturns(NewResponse, err,
                                    [EmptyTick EXCEPT
                                       !.at = now,
                                       !.stepFailed = IF r.err # NoErr THEN "reload"
                                                      ELSE "secrets"])
                    /\ tickRules' = <<>>
                    /\ ruleIdx' = 0
                    /\ pending' = <<>>
               ELSE /\ response' = NewResponse
                    /\ cur' = [EmptyTick EXCEPT !.at = now]
                    /\ tickRules' = r.Rules
                    /\ ruleIdx' = 1
                    /\ pending' = <<>>
                    /\ pc' = "rule"
    /\ UNCHANGED <<initialRules, inited, BaseURL, files, routesObject, observed,
                   firstRules, initCalls>>
    /\ UNCHANGED <<objMod, ledger, notifyVars, now, pool, otherVars>>

\* tick: the loop is over, tick returns nil
TickEnd ==
    /\ pc = "rule" /\ ruleIdx > Len(tickRules)
    /\ TickReturns(response, NoErr, cur)
    /\ UNCHANGED <<ruleIdx, pending>>
    /\ UNCHANGED <<rsVars, loadVars, histVars>>
    /\ UNCHANGED <<objMod, ledger, secrets, tickRules, tickNo, prev, notifyVars, now, pool, otherVars>>

\* the tick loop after processResource returned (processed, err)
tickAfterAppendsEmpty(resp, rule, processed, err) ==
    IF err # NoErr THEN [err |-> err, Matched |-> resp.Matched]
    ELSE [err |-> NoErr,
          Matched |-> Append(resp.Matched, [Resource |-> rule, URLs |-> URLs(processed)])]

tickAfterIgnore(resp, rule, processed, err) ==
    [err |-> NoErr,
     Matched |-> IF Len(processed) > 0
                 THEN Append(resp.Matched, [Resource |-> rule, URLs |-> URLs(processed)])
                 ELSE resp.Matched]

tickAfter(resp, rule, processed, err) ==
    IF err # NoErr THEN [err |-> err, Matched |-> resp.Matched]
    ELSE [err |-> NoErr,
          Matched |-> IF Len(processed) > 0
                      THEN Append(resp.Matched, [Resource |-> rule, URLs |-> URLs(processed)])
                      ELSE resp.Matched]

\* processResource of the next rule up to notifyAll's start of the workers;
\* when it returns before notifyAll, the tick loop goes on from its result
ProcessResource ==
    /\ pc = "rule" /\ ruleIdx <= Len(tickRules)
    /\ \E fault \in ListFaults(tickRules[ruleIdx]) :
         LET h == processResourceHead(tickRules[ruleIdx], ledger, objMod, now, fault)
             rec == [cur EXCEPT !.rules = Append(@, ruleIdx),
                                !.listed = IF h.err # NoErr THEN @
                                           ELSE @ \cup {h.objects[i] : i \in 1..Len(h.objects)},
                                !.stepFailed = IF h.err = NoErr THEN @
                                               ELSE IF fault = "pending" THEN "pending"
                                               ELSE "list",
                                !.batches = IF h.err = NoErr /\ Len(h.pending) > 0
                                            THEN Append(@, [rule |-> ruleIdx,
                                                            pending |-> h.pending])
                                            ELSE @]
             a == tickAfter(response, tickRules[ruleIdx], <<>>, h.err)
         IN IF (h.err # NoErr \/ Len(h.pending) = 0) /\ a.err # NoErr
            THEN /\ TickReturns(response, a.err, rec)
                 /\ UNCHANGED <<ruleIdx, pending, notifyVars>>
            ELSE IF h.err # NoErr \/ Len(h.pending) = 0
            THEN /\ ruleIdx' = ruleIdx + 1
                 /\ cur' = rec
                 /\ response' = [response EXCEPT !.Matched = a.Matched]
                 /\ UNCHANGED <<pc, pending, notifyVars>>
            ELSE /\ pending' = h.pending
                 /\ cur' = rec
                 /\ pc' = "notify"
                 /\ queue' = <<>> /\ enqueued' = 0 /\ closed' = FALSE
                 /\ busy' = {} /\ errorChannel' = <<>>
                 /\ UNCHANGED <<ruleIdx, response>>
    /\ UNCHANGED <<rsVars, loadVars, histVars>>
    /\ UNCHANGED <<objMod, ledger, secrets, tickRules, tickNo, prev, now, pool, otherVars>>

\* notifyAll: the producer sends the next object to the queue
Enqueue ==
    /\ pc = "notify" /\ enqueued < Len(pending) /\ ~closed
    /\ queue' = Append(queue, pending[enqueued + 1])
    /\ enqueued' = enqueued + 1
    /\ UNCHANGED <<closed, busy, errorChannel>>
    /\ UNCHANGED <<rsVars, loadVars, histVars, tickVars, now, pool, otherVars>>

\* notifyAll: close(queue)
Close ==
    /\ pc = "notify" /\ enqueued = Len(pending) /\ ~closed
    /\ closed' = TRUE
    /\ UNCHANGED <<queue, enqueued, busy, errorChannel>>
    /\ UNCHANGED <<rsVars, loadVars, histVars, tickVars, now, pool, otherVars>>

\* one of the Limit workers is waiting on the queue while fewer than Limit are
\* inside notify
WorkerFree(inNotify) == Cardinality(inNotify) < Limit

\* a receive from the queue channel: the object received, the queue after it
ReceiveKeeps(q) == [object |-> Head(q), rest |-> q]

Receive(q) == [object |-> Head(q), rest |-> Tail(q)]

\* a worker waiting on the queue receives an object and calls notify
WorkerTake ==
    /\ pc = "notify" /\ queue # <<>> /\ WorkerFree(busy)
    /\ busy' = busy \cup {Receive(queue).object}
    /\ queue' = Receive(queue).rest
    /\ cur' = [cur EXCEPT !.dispatched[Receive(queue).object.url] = @ + 1,
                          !.lateTakes = IF cur.failed # {}
                                        THEN @ \cup {Receive(queue).object} ELSE @]
    /\ UNCHANGED <<enqueued, closed, errorChannel>>
    /\ UNCHANGED <<rsVars, loadVars, histVars, now, pool, otherVars>>
    /\ UNCHANGED <<pc, objMod, ledger, secrets, tickRules, ruleIdx, pending, response,
                   tickNo, prev>>

\* notify returns in a worker: the proxy's error, or the copy recorded in the
\* response; the result goes to the error channel
notify(o, fails) ==
    IF fails THEN [err |-> <<"proxy error", o.url>>, copied |-> {}]
    ELSE [err |-> NoErr, copied |-> {o.url}]

WorkerNotify ==
    /\ pc = "notify"
    /\ \E o \in busy, fails \in BOOLEAN :
         LET n == notify(o, fails)
         IN /\ busy' = busy \ {o}
            /\ errorChannel' = Append(errorChannel, n.err)
            /\ response' = [response EXCEPT !.Copied = @ \cup n.copied]
            /\ cur' = IF n.err # NoErr THEN [cur EXCEPT !.failed = @ \cup {o}]
                      ELSE [cur EXCEPT !.ok = @ \cup {o}]
    /\ UNCHANGED <<queue, enqueued, closed>>
    /\ UNCHANGED <<rsVars, loadVars, histVars, now, pool, otherVars>>
    /\ UNCHANGED <<pc, objMod, ledger, secrets, tickRules, ruleIdx, pending, tickNo, prev>>

\* waitGroup.Wait returns once each of the Limit workers has left its loop
\* over the queue: the queue is closed and drained and no worker is inside
\* notify. (A worker with nothing left to receive only leaves; the goroutines are
\* counted one by one in SpecPool.)
WaitReturnsEarly(isClosed, q, inNotify) == isClosed /\ q = <<>>

WaitReturns(isClosed, q, inNotify) == isClosed /\ q = <<>> /\ inNotify = {}

\* waitGroup.Wait returns; notifyAll reads the error channel and returns;
\* processResource records the pending objects; tick goes to the next rule
NotifyAllReturn ==
    /\ pc = "notify" /\ WaitReturns(closed, queue, busy)
    /\ \E wfault \in (IF notifyAllResult(errorChannel) = NoErr THEN BOOLEAN ELSE {FALSE}) :
         LET nerr == notifyAllResult(errorChannel)
             t == processResourceTail(nerr, pending, ledger, now, wfault)
             a == tickAfter(response, tickRules[ruleIdx], t.processed, t.err)
             objs == {pending[i] : i \in 1..Len(pending)}
             rec == [cur EXCEPT
                       !.writes = IF t.wrote
                                  THEN @ \cup {[objects |-> objs, busy |-> busy,
                                                queued |-> Len(queue)]}
                                  ELSE @,
                       !.recorded = @ \cup {o \in objs : \E e \in t.ledger \ ledger :
                                                              e.fp = Fingerprint(o)},
                       !.writeFailed = IF t.wrote /\ t.err # NoErr THEN @ \cup objs ELSE @,
                       !.stepFailed = IF t.wrote /\ t.err # NoErr THEN "write" ELSE @]
         IN /\ ledger' = t.ledger
            /\ IF a.err # NoErr
               THEN /\ TickReturns(response, a.err, rec)
                    /\ UNCHANGED <<ruleIdx, pending>>
               ELSE /\ response' = [response EXCEPT !.Matched = a.Matched]
                    /\ cur' = rec
                    /\ ruleIdx' = ruleIdx + 1
                    /\ pending' = <<>>
                    /\ pc' = "rule"
    /\ enqueued' = 0 /\ closed' = FALSE /\ errorChannel' = <<>>
    /\ UNCHANGED <<queue, busy>>
    /\ UNCHANGED <<rsVars, loadVars, histVars>>
    /\ UNCHANGED <<objMod, secrets, tickRules, tickNo, prev, now, pool, otherVars>>

\* the environment acts between two ticks
BetweenTicks == pc = "idle" /\ 0 < tickNo /\ tickNo < MaxTicks

\* time passes between two ticks
Advance ==
    /\ BetweenTicks /\ now < MaxTime
    /\ now' = now + 1
    /\ UNCHANGED <<rsVars, loadVars, histVars, tickVars, notifyVars, pool, otherVars>>

\* a source file is rewritten between two ticks: its modification time changes
Touch ==
    /\ BetweenTicks
    /\ \E f \in SrcFiles :
         /\ objMod[f] < now
         /\ objMod' = [objMod EXCEPT ![f] = now]
    /\ UNCHANGED <<rsVars, loadVars, histVars, notifyVars, now, pool, otherVars>>
    /\ UNCHANGED <<pc, ledger, secrets, tickRules, ruleIdx, pending, response, tickNo, cur, prev>>

\* a rule file is written, replaced or removed between two ticks
ChangeRules == BetweenTicks /\ ChangeFileIn({1})

Next ==
    \/ New \/ Init \/ TickStart \/ TickEnd \/ ProcessResource
    \/ Enqueue \/ Close \/ WorkerTake \/ WorkerNotify \/ NotifyAllReturn
    \/ Advance \/ Touch \/ ChangeRules

Spec == InitCron /\ [][Next]_vars

\* the service configured with the rule r3 in its configuration and the rule
\* r2 in a rule file: two rules whose sources share no object
InitDisjoint ==
    /\ Rules = <<"r3">>
    /\ initialRules = <<>> /\ inited = 0
    /\ BaseURL = RulesDir
    /\ meta = Unprimed
    /\ files \in {[NoFiles EXCEPT !["f1.json"] = c] : c \in {Absent, <<"r2">>}}
    /\ now = 0 /\ pool = <<>> /\ OthersAtRest
    /\ LoaderAtRest /\ CronAtRest

SpecDisjoint == InitDisjoint /\ [][Next]_vars

\* =========================================================================
\* SpecPool: one notifyAll call, its goroutines counted
\* =========================================================================
\* the lengths of the objects slice notifyAll is called with
PendingSizes == {0, 1, Limit - 1, Limit, Limit + 1, MaxPending}

\* notifyAll not yet called
PoolAtEntry ==
    [at |-> "entry", n |-> 0, queues |-> 0, started |-> 0, wg |-> 0, sent |-> 0,
     q |-> 0, closed |-> FALSE, inNotify |-> 0, exited |-> 0, results |-> 0,
     anyErr |-> FALSE, ret |-> "none"]

InitPool ==
    /\ Rules = <<"r1">>
    /\ initialRules = <<>> /\ inited = 0
    /\ BaseURL = RulesDir
    /\ meta = Unprimed
    /\ files = NoFiles
    /\ now = 0 /\ pool = PoolAtEntry /\ OthersAtRest
    /\ LoaderAtRest /\ CronAtRest

\* notifyAll is called: nil for no objects, else the queue and the error
\* channel are made, each with room for every object
PoolEnter ==
    /\ pool.at = "entry"
    /\ \E n \in PendingSizes :
         pool' = IF n = 0 THEN [pool EXCEPT !.at = "done", !.ret = "nil"]
                 ELSE [pool EXCEPT !.at = "spawn", !.n = n, !.queues = @ + 1]
    /\ UNCHANGED <<rsVars, loadVars, histVars, tickVars, notifyVars, now, otherVars>>

\* for worker := 0; worker < Limit; worker++: waitGroup.Add(1) and go func
PoolSpawn ==
    /\ pool.at = "spawn" /\ pool.started < Limit
    /\ pool' = [pool EXCEPT !.started = @ + 1, !.wg = @ + 1,
                            !.at = IF pool.started + 1 = Limit THEN "send" ELSE @]
    /\ UNCHANGED <<rsVars, loadVars, histVars, tickVars, notifyVars, now, otherVars>>

\* queue := make(chan storage.Object, len(objects)): its capacity
queueCap(n) == n

\* an error channel made without a buffer
errorChannelUnbuffered(n) == 0

\* errorChannel = make(chan error, len(objects)): its capacity
errorChannelCap(n) == n

\* queue <- objects[i]: the producer waits while the queue is full
PoolSend ==
    /\ pool.at = "send" /\ pool.sent < pool.n
    /\ pool.q < queueCap(pool.n)
    /\ pool' = [pool EXCEPT !.sent = @ + 1, !.q = @ + 1]
    /\ UNCHANGED <<rsVars, loadVars, histVars, tickVars, notifyVars, now, otherVars>>

\* close(queue), then waitGroup.Wait()
PoolClose ==
    /\ pool.at = "send" /\ pool.sent = pool.n
    /\ pool' = [pool EXCEPT !.closed = TRUE, !.at = "wait"]
    /\ UNCHANGED <<rsVars, loadVars, histVars, tickVars, notifyVars, now, otherVars>>

\* the goroutines at "range queue": one per object
WorkersWaitingPerObject(p) == p.n - p.inNotify - p.exited

\* the goroutines at "range queue": those started, not inside notify, not gone
WorkersWaiting(p) == p.started - p.inNotify - p.exited

\* a waiting goroutine receives an object from the queue and calls notify
PoolReceive ==
    /\ WorkersWaiting(pool) > 0 /\ pool.q > 0
    /\ pool' = [pool EXCEPT !.q = @ - 1, !.inNotify = @ + 1]
    /\ UNCHANGED <<rsVars, loadVars, histVars, tickVars, notifyVars, now, otherVars>>

\* notify returns in a goroutine; its result is sent to the error channel,
\* which nobody reads before waitGroup.Wait returned: the goroutine waits
\* while the channel is full
PoolNotify ==
    /\ pool.inNotify > 0
    /\ pool.results < errorChannelCap(pool.n)
    /\ \E fails \in BOOLEAN :
         pool' = [pool EXCEPT !.inNotify = @ - 1, !.results = @ + 1,
                              !.anyErr = @ \/ fails]
    /\ UNCHANGED <<rsVars, loadVars, histVars, tickVars, notifyVars, now, otherVars>>

\* a waiting goroutine finds the queue closed and empty: waitGroup.Done()
PoolExit ==
    /\ WorkersWaiting(pool) > 0 /\ pool.q = 0 /\ pool.closed
    /\ pool' = [pool EXCEPT !.exited = @ + 1, !.wg = @ - 1]
    /\ UNCHANGED <<rsVars, loadVars, histVars, tickVars, notifyVars, now, otherVars>>

\* waitGroup.Wait returns; the error channel is read; notifyAll returns
PoolReturn ==
    /\ pool.at = "wait" /\ pool.wg = 0
    /\ pool' = [pool EXCEPT !.at = "done",
                            !.ret = IF pool.anyErr THEN "error" ELSE "nil"]
    /\ UNCHANGED <<rsVars, loadVars, histVars, tickVars, notifyVars, now, otherVars>>

NextPool ==
    \/ PoolEnter \/ PoolSpawn \/ PoolSend \/ PoolClose
    \/ PoolReceive \/ PoolNotify \/ PoolExit \/ PoolReturn

SpecPool == InitPool /\ [][NextPool]_vars

\* =========================================================================
\* SpecNotifyAll: notifyAll run to its end by a fair scheduler, in the build
\* with the worker pool or in the build with one goroutine per object
\* =========================================================================
\* the lengths of the objects slice the one-goroutine-per-object notifyAll is
\* called with
FanoutSizes == 0..MaxObjects

\* errors = make(chan error, len(objects)): its capacity
errorsCap(n) == n

\* notifyAll not yet called. ok and failed count the goroutines whose notify
\* returned and that are at "errors <-"; errors is the channel, TRUE for a
\* non-nil error
FanoutAtEntry ==
    [at |-> "entry", n |-> 0, wg |-> 0, started |-> 0, inNotify |-> 0,
     ok |-> 0, failed |-> 0, errors |-> <<>>, finished |-> 0, read |-> 0,
     ret |-> "none"]

\* the build that has the other notifyAll
FanoutAbsent == [FanoutAtEntry EXCEPT !.at = "absent"]
PoolAbsent == [PoolAtEntry EXCEPT !.at = "absent"]

InitNotifyAll ==
    /\ Rules = <<"r1">>
    /\ initialRules = <<>> /\ inited = 0
    /\ BaseURL = RulesDir
    /\ meta = Unprimed
    /\ files = NoFiles
    /\ now = 0
    /\ \/ pool = PoolAtEntry /\ fanout = FanoutAbsent
       \/ pool = PoolAbsent /\ fanout = FanoutAtEntry
    /\ handler = <<>> /\ dest = <<>> /\ walk = <<>> /\ job = <<>>
    /\ LoaderAtRest /\ CronAtRest

\* notifyAll is called: nil for no objects, else waitGroup.Add(len(objects))
\* and the errors channel is made
FanoutEnter ==
    /\ fanout.at = "entry"
    /\ \E n \in FanoutSizes :
         fanout' = IF n = 0 THEN [fanout EXCEPT !.at = "done", !.ret = "nil"]
                   ELSE [fanout EXCEPT !.at = "spawn", !.n = n, !.wg = n]
    /\ UNCHANGED <<rsVars, loadVars, histVars, tickVars, notifyVars, now, pool>>
    /\ UNCHANGED <<handler, dest, walk, job>>

\* for i := range objects: go func(object)
FanoutSpawn ==
    /\ fanout.at = "spawn" /\ fanout.started < fanout.n
    /\ fanout' = [fanout EXCEPT
                    !.started = @ + 1, !.inNotify = @ + 1,
                    !.at = IF fanout.started + 1 = fanout.n THEN "read" ELSE @]
    /\ UNCHANGED <<rsVars, loadVars, histVars, tickVars, notifyVars, now, pool>>
    /\ UNCHANGED <<handler, dest, walk, job>>

\* s.notify returns in a goroutine, with nil or with an error
FanoutNotify ==
    /\ fanout.inNotify > 0
    /\ \E fails \in BOOLEAN :
         fanout' = [fanout EXCEPT
                      !.inNotify = @ - 1,
                      !.ok = IF fails THEN @ ELSE @ + 1,
                      !.failed = IF fails THEN @ + 1 ELSE @]
    /\ UNCHANGED <<rsVars, loadVars, histVars, tickVars, notifyVars, now, pool>>
    /\ UNCHANGED <<handler, dest, walk, job>>

\* errors <- result in a goroutine, which waits while the channel is full;
\* then the deferred waitGroup.Done()
FanoutSendResult ==
    /\ Len(fanout.errors) < errorsCap(fanout.n)
    /\ \E fails \in BOOLEAN :
         /\ IF fails THEN fanout.failed > 0 ELSE fanout.ok > 0
         /\ fanout' = [fanout EXCEPT
                         !.ok = IF fails THEN @ ELSE @ - 1,
                         !.failed = IF fails THEN @ - 1 ELSE @,
                         !.errors = Append(@, fails),
                         !.finished = @ + 1, !.wg = @ - 1]
    /\ UNCHANGED <<rsVars, loadVars, histVars, tickVars, notifyVars, now, pool>>
    /\ UNCHANGED <<handler, dest, walk, job>>

\* err := <-errors in the caller's loop: a non-nil error is returned at once,
\* and nil is returned after len(objects) nil results
FanoutRead ==
    /\ fanout.at = "read" /\ fanout.read < fanout.n
    /\ Len(fanout.errors) > 0
    /\ fanout' = [fanout EXCEPT
                    !.errors = Tail(@), !.read = @ + 1,
                    !.at = IF Head(fanout.errors) \/ fanout.read + 1 = fanout.n
                           THEN "done" ELSE @,
                    !.ret = IF Head(fanout.errors) THEN "error"
                            ELSE IF fanout.read + 1 = fanout.n THEN "nil" ELSE @]
    /\ UNCHANGED <<rsVars, loadVars, histVars, tickVars, notifyVars, now, pool>>
    /\ UNCHANGED <<handler, dest, walk, job>>

NextFanout ==
    \/ FanoutEnter \/ FanoutSpawn \/ FanoutNotify \/ FanoutSendResult
    \/ FanoutRead

NextNotifyAll == NextPool \/ NextFanout

\* every goroutine that can run is run in the end, and every notify returns
SpecNotifyAll ==
    InitNotifyAll /\ [][NextNotifyAll]_vars /\ WF_vars(NextNotifyAll)

\* =========================================================================
\* SpecFn: mirror.Fn, the event handler
\* =========================================================================
\* the URLs an event can carry
EventURLs == {"gs://b/a.txt", "gs://b/sub/b.csv"}

\* the Error texts a mirror response can carry, as lists of words
ResponseErrors == {<<>>, <<"boom">>, <<"100", "%v", "done">>}

\* the responses service.Mirror can return
MirrorResponses ==
    [Status : {"ok", "error"}, Error : ResponseErrors,
     NotFoundError : {"", "not found"}, SchemaError : {"", "bad schema"}]

\* the errors NewFromEnv can return
ConfigErrors == {NoErr, <<"failed to load config">>}

\* fmt.Errorf(format) with no operand: a verb prints as a missing operand
Errorf(format) ==
    [i \in 1..Len(format) |-> IF format[i] = "%v" THEN "%!v(MISSING)" ELSE format[i]]

\* errors.Wrap(err, message)
Wrap(err, message) == message \o err

\* fn: NewFromEnv, service.Mirror, the response's Error turned into an error
fnSurfacesAll(configErr, mirrored) ==
    IF configErr # NoErr THEN [response |-> <<>>, err |-> configErr]
    ELSE IF mirrored.Error # <<>> THEN [response |-> <<>>, err |-> Errorf(mirrored.Error)]
    ELSE IF mirrored.SchemaError # "" THEN [response |-> <<>>, err |-> <<mirrored.SchemaError>>]
    ELSE [response |-> mirrored, err |-> NoErr]

fn(configErr, mirrored) ==
    IF configErr # NoErr THEN [response |-> <<>>, err |-> configErr]
    ELSE IF mirrored.Error # <<>> THEN [response |-> <<>>, err |-> Errorf(mirrored.Error)]
    ELSE [response |-> mirrored, err |-> NoErr]

\* Fn after fn returned: the error wrapped with the event's URL, or nil
FnResult(url, r) ==
    IF r.err # NoErr THEN Wrap(r.err, <<"failed to mirror", url>>) ELSE NoErr

cronVars == <<rsVars, loadVars, histVars, tickVars, notifyVars, now, pool>>

InitFn ==
    /\ Rules = <<"r1">>
    /\ initialRules = <<>> /\ inited = 0
    /\ BaseURL = RulesDir
    /\ meta = Unprimed
    /\ files = NoFiles
    /\ now = 0 /\ pool = <<>>
    /\ LoaderAtRest /\ CronAtRest
    /\ dest = <<>> /\ fanout = <<>> /\ walk = <<>> /\ job = <<>>
    /\ handler \in [at : {"start"}, url : EventURLs, configErr : ConfigErrors,
                    mirror : MirrorResponses, logging : BOOLEAN,
                    called : {FALSE}, out : {<<>>}, ret : {NoErr}]

\* fn: NewFromEnv(ConfigEnvKey)
FnNewFromEnv ==
    /\ handler.at = "start"
    /\ handler' = [handler EXCEPT
                     !.at = IF handler.configErr # NoErr THEN "fnReturned" ELSE "service",
                     !.out = fn(handler.configErr, handler.mirror)]
    /\ UNCHANGED <<cronVars, dest, fanout, walk, job>>

\* fn: service.Mirror(NewRequest(event.URL())) and the test of response.Error
FnMirror ==
    /\ handler.at = "service"
    /\ handler' = [handler EXCEPT !.at = "fnReturned", !.called = TRUE,
                                  !.out = fn(handler.configErr, handler.mirror)]
    /\ UNCHANGED <<cronVars, dest, fanout, walk, job>>

\* Fn: the return, with or without logging
FnReturn ==
    /\ handler.at = "fnReturned"
    /\ handler' = [handler EXCEPT !.at = "done",
                                  !.ret = FnResult(handler.url, handler.out)]
    /\ UNCHANGED <<cronVars, dest, fanout, walk, job>>

NextFn == FnNewFromEnv \/ FnMirror \/ FnReturn

SpecFn == InitFn /\ [][NextFn]_vars

\* =========================================================================
\* SpecResponse: contract.Response under concurrent AddURL calls
\* =========================================================================
\* the goroutines that may call AddURL on the one Response
Callers == 1..MaxCallers

\* the URLs they add
DestChoices == {"mem://dst/a.txt", "mem://dst/b.csv"}

\* contract.NewResponse: an unlocked mutex, no destination URL
NewContractResponse(urls) ==
    [Status |-> "ok", mutex |-> 0, DestURLs |-> <<>>,
     at |-> [c \in Callers |-> "idle"], URL |-> urls,
     seen |-> [c \in Callers |-> <<>>]]

InitResponse ==
    /\ Rules = <<"r1">>
    /\ initialRules = <<>> /\ inited = 0
    /\ BaseURL = RulesDir
    /\ meta = Unprimed
    /\ files = NoFiles
    /\ now = 0 /\ pool = <<>>
    /\ LoaderAtRest /\ CronAtRest
    /\ handler = <<>> /\ fanout = <<>> /\ walk = <<>> /\ job = <<>>
    /\ dest \in {NewContractResponse(urls) : urls \in [Callers -> DestChoices]}

\* a goroutine calls AddURL(URL) and reaches r.mutex.Lock()
AddURLCall(c) ==
    /\ dest.at[c] = "idle"
    /\ dest' = [dest EXCEPT !.at[c] = "lock"]
    /\ UNCHANGED <<cronVars, handler, fanout, walk, job>>

\* sync.Mutex.Lock returns to one goroutine at a time
LockAlways(m) == TRUE

LockReturns(m) == m = 0

\* r.mutex.Lock() returns in the goroutine
AddURLLock(c) ==
    /\ dest.at[c] = "lock" /\ LockReturns(dest.mutex)
    /\ dest' = [dest EXCEPT !.at[c] = "append", !.mutex = c]
    /\ UNCHANGED <<cronVars, handler, fanout, walk, job>>

\* append(r.DestURLs, URL): the slice is read
AddURLRead(c) ==
    /\ dest.at[c] = "append"
    /\ dest' = [dest EXCEPT !.at[c] = "write", !.seen[c] = dest.DestURLs]
    /\ UNCHANGED <<cronVars, handler, fanout, walk, job>>

\* r.DestURLs = append(...): the extended slice is stored
AddURLWrite(c) ==
    /\ dest.at[c] = "write"
    /\ dest' = [dest EXCEPT !.at[c] = "unlock",
                            !.DestURLs = Append(dest.seen[c], dest.URL[c])]
    /\ UNCHANGED <<cronVars, handler, fanout, walk, job>>

\* the deferred r.mutex.Unlock(); AddURL returns
AddURLUnlock(c) ==
    /\ dest.at[c] = "unlock"
    /\ dest' = [dest EXCEPT !.at[c] = "done", !.mutex = 0]
    /\ UNCHANGED <<cronVars, handler, fanout, walk, job>>

NextResponse ==
    \E c \in Callers :
        \/ AddURLCall(c) \/ AddURLLock(c) \/ AddURLRead(c)
        \/ AddURLWrite(c) \/ AddURLUnlock(c)

SpecResponse == InitResponse /\ [][NextResponse]_vars

\* =========================================================================
\* SpecList: one appendResources call over a source store of any shape
\* =========================================================================
\* the entries of a directory of the wider store
WalkChildren(d) ==
    CASE d = "root" -> {"root/a.txt", "root/c.csv", "root/sub", "root/sub2"}
      [] d = "root/sub" -> {"root/sub/b.csv", "root/sub/deep"}
      [] d = "root/sub2" -> {"root/sub2/d.txt"}
      [] d = "root/sub/deep" -> {"root/sub/deep/e.csv"}
      [] OTHER -> {}

\* a storage.Object of the wider store
WalkEntry(u) == [url |-> u, dir |-> u \in WalkDirs, mod |-> 0, size |-> 1]

\* the sequences of at most k distinct members of S
Arrangements(S, k) ==
    {q \in UNION {[1..m -> S] : m \in 0..k} :
        \A i, j \in 1..Len(q) : q[i] = q[j] => i = j}

\* what s.fs.List may return for directory d: the directory itself first or
\* not at all, then some of its entries (the matcher drops others) in any
\* order
ListingsOf(d) ==
    {[i \in 1..Len(h \o b) |-> WalkEntry((h \o b)[i])] :
        h \in {<<>>, <<d>>}, b \in Arrangements(WalkChildren(d), MaxEntries)}

\* the suffix filters of a rule
WalkSuffixes == {"", ".csv", ".txt"}

InitList ==
    /\ Rules = <<"r1">>
    /\ initialRules = <<>> /\ inited = 0
    /\ BaseURL = RulesDir
    /\ meta = Unprimed
    /\ files = NoFiles
    /\ now = 0 /\ pool = PoolAtEntry
    /\ LoaderAtRest /\ CronAtRest
    /\ handler = <<>> /\ dest = <<>> /\ fanout = <<>> /\ job = <<>>
    /\ \E l1 \in ListingsOf("root"), l2 \in ListingsOf("root/sub"),
          l3 \in ListingsOf("root/sub2"), l4 \in ListingsOf("root/sub/deep") :
         walk \in [at : {"start"},
                   list : {[d \in WalkDirs |->
                              CASE d = "root" -> l1 [] d = "root/sub" -> l2
                                [] d = "root/sub2" -> l3 [] OTHER -> l4]},
                   suffix : WalkSuffixes,
                   fault : {"none"} \cup WalkDirs,
                   out : {[result |-> <<>>, err |-> NoErr]}]

\* s.appendResources(ctx, resource.Source.URL, &result, filter, options)
\* with an empty result, as getResourceCandidates calls it
WalkAppend ==
    /\ walk.at = "start"
    /\ walk' = [walk EXCEPT
                  !.at = "done",
                  !.out = appendResources("root", <<>>, walk.suffix, walk.list, walk.fault)]
    /\ UNCHANGED <<cronVars, handler, dest, fanout, job>>

NextList == WalkAppend

SpecList == InitList /\ [][NextList]_vars

\* =========================================================================
\* SpecJob: job.Actions.Run, the completion actions of a job
\* =========================================================================
\* what an action does when called: whether its Do and its WriteError fail
ActionKinds == [doFails : BOOLEAN, writeFails : BOOLEAN]

\* the lists of at most MaxActions actions
ActionLists == UNION {[1..m -> ActionKinds] : m \in 0..MaxActions}

\* actions := c.OnSuccess whatever the context holds
actionsOnSuccess(c, isError) == [name |-> "OnSuccess", actions |-> c.OnSuccess]

\* actions := c.OnSuccess; if context.Error != nil { actions = c.OnFailure }
actions(c, isError) ==
    IF isError THEN [name |-> "OnFailure", actions |-> c.OnFailure]
    ELSE [name |-> "OnSuccess", actions |-> c.OnSuccess]

\* action.Do(context, service) of action i of a list
Do(list, i) ==
    IF list.actions[i].doFails THEN <<"action failed", list.name>> ELSE NoErr

\* action.WriteError(context, service) of action i of a list
WriteError(list, i) ==
    IF list.actions[i].writeFails THEN <<"failed to write error", list.name>> ELSE NoErr

\* calls holds the calls made, in order; i is the loop's position
InitJob ==
    /\ Rules = <<"r1">>
    /\ initialRules = <<>> /\ inited = 0
    /\ BaseURL = RulesDir
    /\ meta = Unprimed
    /\ files = NoFiles
    /\ now = 0 /\ pool = PoolAtEntry
    /\ LoaderAtRest /\ CronAtRest
    /\ handler = <<>> /\ dest = <<>> /\ fanout = <<>> /\ walk = <<>>
    /\ job \in [at : {"entry"}, c : [OnSuccess : ActionLists, OnFailure : ActionLists],
                hasError : BOOLEAN, isError : {FALSE}, i : {0}, err : {NoErr},
                calls : {<<>>}, ret : {<<"none">>}]

\* Run up to its loop: the list is chosen, and nil returned for an empty one
RunEnter ==
    /\ job.at = "entry"
    /\ LET isError == job.hasError
           acts == actions(job.c, isError).actions
       IN job' = IF Len(acts) = 0
                 THEN [job EXCEPT !.at = "done", !.isError = isError, !.ret = NoErr]
                 ELSE [job EXCEPT !.at = "do", !.isError = isError, !.i = 1]
    /\ UNCHANGED <<cronVars, handler, dest, fanout, walk>>

\* err := action.Do(context, service)
RunDo ==
    /\ job.at = "do"
    /\ LET list == actions(job.c, job.isError)
           err == Do(list, job.i)
       IN job' = [job EXCEPT
                    !.calls = Append(@, [list |-> list.name, i |-> job.i, call |-> "Do"]),
                    !.err = err,
                    !.at = IF err = NoErr /\ job.isError THEN "writeError" ELSE "check"]
    /\ UNCHANGED <<cronVars, handler, dest, fanout, walk>>

\* err = action.WriteError(context, service)
RunWriteError ==
    /\ job.at = "writeError"
    /\ LET list == actions(job.c, job.isError)
       IN job' = [job EXCEPT
                    !.calls = Append(@, [list |-> list.name, i |-> job.i,
                                         call |-> "WriteError"]),
                    !.err = WriteError(list, job.i),
                    !.at = "check"]
    /\ UNCHANGED <<cronVars, handler, dest, fanout, walk>>

\* if err != nil { return err }; the next action, or return nil after the last
RunCheck ==
    /\ job.at = "check"
    /\ LET list == actions(job.c, job.isError)
       IN job' = IF job.err # NoErr
                 THEN [job EXCEPT !.at = "done", !.ret = job.err]
                 ELSE IF job.i = Len(list.actions)
                 THEN [job EXCEPT !.at = "done", !.ret = NoErr]
                 ELSE [job EXCEPT !.at = "do", !.i = @ + 1]
    /\ UNCHANGED <<cronVars, handler, dest, fanout, walk>>

NextJob == RunEnter \/ RunDo \/ RunWriteError \/ RunCheck

SpecJob == InitJob /\ [][NextJob]_vars

\* =========================================================================
\* Properties of the rule-set loader (SpecReload)
\* =========================================================================
\* a ReloadIfNeeded call whose watcher reported a change has returned
ReloadReturned ==
    /\ lpc = [op |-> "Reload", at |-> "idle"]
    /\ changedSeen.changed /\ changedSeen.err = NoErr

\* the arrays decoded from the .json files under BaseURL, in listing order
RECURSIVE DecodedFrom(_, _)
DecodedFrom(fs, i) ==
    IF i > Len(RuleFileNames) THEN <<>>
    ELSE (IF fs[RuleFileNames[i]] \in {Absent, Bad}
          THEN <<>> ELSE fs[RuleFileNames[i]])
         \o DecodedFrom(fs, i + 1)

\* C7: when ReloadIfNeeded detects a change and loading a rule file fails, the
\* error is returned and Resources.Rules is still the snapshot that was active
\* before the call.
C7_ReloadRejection ==
    (ReloadReturned /\ loadErr # NoErr) => Rules = before

\* C8: a reader that reads Resources.Rules while a reload is running sees the
\* complete pre-reload list or the complete post-reload list, never a list in
\* between.
C8_SnapshotAtomicity ==
    (lpc.op = "Reload" /\ lpc.at # "idle" /\ observed.during)
        => observed.rules \in {before, initialRules \o DecodedFrom(files, 1)}

\* C9: a load that succeeds with a non-empty BaseURL leaves in Resources.Rules
\* the rules present at the first Init followed by the arrays decoded from the
\* .json files now under BaseURL, whatever Init calls and loads came before;
\* the seed is the one the first Init captured.
C9_SnapshotContent ==
    [][(lpc.at # "idle" /\ lpc'.at = "idle" /\ loadErr' = NoErr /\ BaseURL # "")
          => /\ Rules' = firstRules \o DecodedFrom(files, 1)
             /\ initialRules' = firstRules]_vars

\* C9 witness: after a second Init and a later reload that dropped a rule file,
\* the snapshot is the non-empty seed plus one file's rules.
C9_Witness ==
    /\ ReloadReturned /\ loadErr = NoErr /\ BaseURL # "" /\ initCalls >= 2
    /\ firstRules = <<"r1">> /\ Rules = <<"r1", "r3">>
    /\ files["f1.json"] = Absent

\* =========================================================================
\* Properties of the cron coordinator (Spec)
\* =========================================================================
\* the objects of a list
Objects(seq) == {seq[i] : i \in 1..Len(seq)}

\* the fingerprints the ledger holds
LedgerFps == {e.fp : e \in ledger}

\* the objects of S that this tick listed with the ledger read, each selected
\* as pending by the rule now dispatching or dispatched already in this tick
SelectedAgain(S) ==
    \A o \in S \cap cur.listed :
        \/ pc = "notify" /\ o \in Objects(pending)
        \/ cur.dispatched[o.url] >= 1

\* C1: an object that a tick dispatched and recorded is not selected as
\* pending and not dispatched by a later tick while it is unchanged and its
\* fingerprint is within the retention horizon: nothing selected as pending
\* or in a worker has a retained fingerprint, and an object the previous tick
\* recorded, unchanged and within the horizon, is dispatched zero times by
\* this tick and stays in the ledger as one entry.
C1_LedgerMonotonicity ==
    /\ pc = "notify" =>
         \A o \in Objects(pending) \cup busy : Fingerprint(o) \notin Retained(ledger, now)
    /\ \A o \in prev.recorded :
         (objMod[o.url] = o.mod /\ now - prev.at <= Retention)
            => /\ cur.dispatched[o.url] = 0
               /\ o \notin Objects(pending)
               /\ Cardinality({e \in ledger : e.fp = Fingerprint(o)}) = 1

\* C1 witness: tick 1 dispatched and recorded an object; tick 2 listed it
\* unchanged, dispatched it zero times, and ended without error.
C1_Witness ==
    /\ tickNo = 2 /\ cur.done /\ response.Status = "ok"
    /\ \E o \in prev.recorded :
         /\ prev.dispatched[o.url] = 1
         /\ objMod[o.url] = o.mod /\ o \in cur.listed
         /\ cur.dispatched[o.url] = 0
         /\ Cardinality({e \in ledger : e.fp = Fingerprint(o)}) = 1

\* C2: during a notifyAll call, whatever the number of pending objects, at
\* most Limit calls of notify are in progress at the same moment, one queue
\* channel is made, and every object in a worker or already notified was
\* received from that queue.
C2_BoundedWorkerPool ==
    /\ pool.inNotify <= Limit
    /\ pool.queues = (IF pool.n > 0 THEN 1 ELSE 0)
    /\ pool.inNotify + pool.results + pool.q = pool.sent
    /\ pool.sent <= pool.n
    /\ (pool.at = "done" /\ pool.n > 0) => pool.results = pool.n

\* C2 witness: with more than Limit pending objects, Limit calls of notify
\* are in progress while another object waits in the queue.
C2_Witness ==
    /\ pool.n > Limit /\ pool.inNotify = Limit /\ pool.q > 0

\* C3: when the dispatch of a pending object of a rule returned an error, the
\* tick never goes on to another rule; it ends with notifyAll's error for a
\* failed object of that rule, no AddProcessed call is made for that rule and
\* none of its objects is recorded, and the rules listed in the tick are the
\* ones up to the failing rule.
C3_FirstErrorAborts ==
    cur.failed # {} =>
        /\ pc = "notify" \/ (pc = "idle" /\ cur.done)
        /\ cur.failed \subseteq Objects(pending)
        /\ cur.rules = [i \in 1..ruleIdx |-> i]
        /\ \A w \in cur.writes : w.objects # Objects(pending)
        /\ \A o \in Objects(pending) : Fingerprint(o) \notin LedgerFps
        /\ cur.done =>
             /\ response.Status = "error"
             /\ \E o \in cur.failed :
                  response.Error = <<"failed to notify all", "proxy error", o.url>>

\* C3 witness: a dispatch of the first of two rules failed while a sibling
\* succeeded; the tick ended with the error and the second rule was not run.
C3_Witness ==
    /\ cur.done /\ cur.failed # {} /\ cur.ok # {}
    /\ ruleIdx = 1 /\ Len(tickRules) = 2 /\ cur.rules = <<1>>
    /\ response.Status = "error"

\* C4: an object whose dispatch failed in a tick is not passed to AddProcessed
\* and not recorded by that tick; when the next tick lists it unchanged (and
\* reads the ledger), it is selected as pending and dispatched again.
C4_RetryThroughLedger ==
    /\ cur.recorded \cap cur.failed = {}
    /\ \A w \in cur.writes : w.objects \cap cur.failed = {}
    /\ \A o \in cur.failed : Fingerprint(o) \notin LedgerFps
    /\ SelectedAgain(prev.failed)

\* C4 witness: an object failed in tick 1, was listed unchanged by tick 2,
\* dispatched again there and recorded.
C4_Witness ==
    /\ tickNo = 2 /\ cur.done
    /\ \E o \in prev.failed \cap cur.listed :
         /\ cur.dispatched[o.url] = 1 /\ o \in cur.recorded
         /\ Fingerprint(o) \in LedgerFps

\* C5 as stated: AddProcessed is called only after the rule's workers have
\* drained, and, the ledger write not failing, a finished tick has recorded
\* exactly the objects whose dispatch succeeded in it.
C5_RecordsSuccessful ==
    /\ \A w \in cur.writes : w.busy = {} /\ w.queued = 0
    /\ (cur.done /\ cur.writeFailed = {}) => cur.recorded = cur.ok

\* C5 amended: AddProcessed is called only after the rule's workers have
\* drained and only with a rule's pending objects when every one of them was
\* dispatched successfully; a finished tick has recorded the objects whose
\* dispatch succeeded except those of a rule in which another object failed
\* and those whose ledger write failed.
C5_RecordsWholeRules ==
    /\ \A w \in cur.writes : w.busy = {} /\ w.queued = 0 /\ w.objects \subseteq cur.ok
    /\ cur.recorded \subseteq cur.ok
    /\ cur.done =>
         cur.recorded = (cur.ok \ cur.writeFailed)
                           \ (IF cur.failed # {} THEN Objects(pending) ELSE {})

\* C5 witness: in a finished tick one object of a rule was dispatched
\* successfully, another object of the same rule failed, and the successful
\* one is not recorded.
C5_Witness ==
    /\ cur.done /\ cur.failed # {}
    /\ \E o \in cur.ok \cap Objects(pending) :
         o \notin cur.recorded /\ Fingerprint(o) \notin LedgerFps

\* C6: when AddProcessed fails for a rule whose pending objects were all
\* dispatched successfully, none of them is in the ledger, the tick ends there
\* with the error, and when the next tick lists them (and reads the ledger)
\* each is selected as pending and dispatched a second time.
C6_LedgerWriteFailure ==
    /\ cur.writeFailed # {} =>
         /\ cur.done /\ pc = "idle"
         /\ cur.writeFailed = Objects(pending) /\ cur.writeFailed \subseteq cur.ok
         /\ \A o \in cur.writeFailed : Fingerprint(o) \notin LedgerFps
         /\ response.Status = "error"
         /\ response.Error = <<"failed to update processed", "failed to write ledger">>
    /\ SelectedAgain(prev.writeFailed)

\* C6 witness: the ledger write of tick 1 failed after a successful dispatch;
\* tick 2 listed the object and dispatched it a second time.
C6_Witness ==
    /\ tickNo = 2 /\ cur.done
    /\ \E o \in prev.writeFailed \cap cur.listed :
         /\ prev.dispatched[o.url] = 1 /\ o \in prev.ok
         /\ cur.dispatched[o.url] = 1

\* C10: once ReloadIfNeeded has run in a tick: when the watcher reported no
\* change or an error, Rules is what it was before the call and no rule file
\* was read; Rules differs from before, or a file was read, only after a
\* reported change; a tick that goes on after a reported change has the
\* rules loaded from the files now present in Rules; and the rules a tick
\* runs are the current Rules.
C10_ReloadIffChanged ==
    /\ (lpc.op = "Reload" /\ (~changedSeen.changed \/ changedSeen.err # NoErr))
          => (Rules = before /\ filesRead = 0 /\ loadErr = changedSeen.err)
    /\ (pc \in {"rule", "notify"} /\ changedSeen.changed)
          => Rules = initialRules \o DecodedFrom(files, 1)
    /\ pc \in {"rule", "notify"} => tickRules = Rules

\* C10 witness: a rule file was added between two ticks; the second tick's
\* ReloadIfNeeded saw the change, replaced Rules, and the tick runs the new
\* rules.
C10_Witness ==
    /\ tickNo = 2 /\ pc = "rule"
    /\ changedSeen.changed /\ loadErr = NoErr /\ filesRead > 0
    /\ before = <<"r1">> /\ Rules = <<"r1", "r2">> /\ tickRules = Rules

\* the candidates of a rule as listed now, with no fault
CandidatesOf(rule) == Objects(getResourceCandidates(rule, objMod, now, "none").result)

\* the rules of the running snapshot that have o among their candidates
RulesListing(o) == {i \in 1..Len(tickRules) : o \in CandidatesOf(tickRules[i])}

\* C11: when a tick has ended without error, an object it dispatched that is
\* a candidate of two rules of the snapshot was dispatched twice, once for
\* each rule, and is in the ledger as one entry.
C11_OverlappingRules ==
    (cur.done /\ response.Status = "ok" /\ cur.at = now) =>
        \A o \in cur.listed :
            (/\ objMod[o.url] = o.mod
             /\ cur.dispatched[o.url] >= 1
             /\ Cardinality(RulesListing(o)) = 2)
                => /\ cur.dispatched[o.url] = 2
                   /\ Cardinality({e \in ledger : e.fp = Fingerprint(o)}) = 1

\* C12: when Fn has returned, its error is non-nil exactly when NewFromEnv
\* failed or service.Mirror was called and its response has a non-empty
\* Error; a non-nil error begins with "failed to mirror" and the event's URL
\* and carries the cause; otherwise, whatever NotFoundError and SchemaError
\* the response holds, Fn returns nil.
C12_FnOutcome ==
    handler.at = "done" =>
        /\ handler.ret # NoErr <=>
             \/ handler.configErr # NoErr
             \/ handler.called /\ handler.mirror.Error # <<>>
        /\ handler.configErr # NoErr => ~handler.called
        /\ handler.ret # NoErr =>
             /\ SubSeq(handler.ret, 1, 2) = <<"failed to mirror", handler.url>>
             /\ Len(handler.ret) > 2

\* C12 witness: the mirror response carries a NotFoundError and a SchemaError
\* and no Error, and Fn has returned nil.
C12_Witness ==
    /\ handler.at = "done" /\ handler.called /\ handler.ret = NoErr
    /\ handler.mirror.NotFoundError # "" /\ handler.mirror.SchemaError # ""
    /\ handler.mirror.Error = <<>>

\* the callers whose append has been stored
Appended == {c \in Callers : dest.at[c] \in {"unlock", "done"}}

\* C13: at no time are two callers of AddURL between Lock and Unlock, and
\* DestURLs always holds, with multiplicity, exactly the URLs of the callers
\* whose append was stored; so once all callers have returned it holds each
\* URL as many times as it was added.
C13_AddURLExclusive ==
    /\ Cardinality({c \in Callers : dest.at[c] \in {"append", "write", "unlock"}}) <= 1
    /\ \A u \in DestChoices :
         Cardinality({i \in 1..Len(dest.DestURLs) : dest.DestURLs[i] = u})
            = Cardinality({c \in Appended : dest.URL[c] = u})
    /\ Len(dest.DestURLs) = Cardinality(Appended)

\* C13 witness: every caller has returned, two of them added the same URL,
\* and DestURLs holds one entry for each call.
C13_Witness ==
    /\ \A c \in Callers : dest.at[c] = "done"
    /\ Len(dest.DestURLs) = MaxCallers
    /\ \E c, d \in Callers : c # d /\ dest.URL[c] = dest.URL[d]

\* C14: outside notifyAll, and so whenever Tick has returned, no object is
\* left in the queue and no worker is inside notify; when a tick has ended,
\* with or without error, every dispatch it started has returned and the
\* response holds the copies of exactly the dispatches that succeeded.
C14_QuiescenceBeforeRead ==
    /\ pc # "notify" => (busy = {} /\ queue = <<>>)
    /\ cur.done =>
         /\ \A u \in SrcFiles :
              cur.dispatched[u] = Cardinality({o \in cur.ok \cup cur.failed : o.url = u})
         /\ response.Copied = {o.url : o \in cur.ok}

\* C14 witness: a tick has returned with the error of a failed dispatch after
\* another dispatch of the same rule had copied its object.
C14_Witness ==
    /\ pc = "idle" /\ cur.done /\ response.Status = "error"
    /\ cur.failed # {} /\ response.Copied # {}
    /\ busy = {} /\ queue = <<>>

\* the tick ended in its first step: the reload or the secrets failed
StartFailed ==
    /\ tickNo >= 1 /\ cur.done /\ lpc.op = "Reload"
    /\ loadErr # NoErr \/ response.Error = <<"failed to init secrets">>

\* C15: while a tick lists and dispatches, ReloadIfNeeded has run; when it
\* reported a change, the secrets are those of the source and the destination
\* resource of every rule of the new snapshot, in order; when the reload or
\* the secrets failed, the tick has ended with that error and has listed,
\* dispatched and recorded nothing.
C15_TickStepOrdering ==
    /\ pc \in {"rule", "notify"} =>
         /\ lpc = [op |-> "Reload", at |-> "idle"] /\ loadErr = NoErr
         /\ changedSeen.changed =>
              /\ Len(secrets) = 2 * Len(Rules)
              /\ \A i \in 1..Len(Rules) :
                   /\ secrets[2 * i - 1] = <<"Source", Rules[i]>>
                   /\ secrets[2 * i] = <<"Dest", Rules[i]>>
    /\ StartFailed =>
         /\ pc = "idle" /\ response.Status = "error"
         /\ response.Error = (IF loadErr # NoErr THEN loadErr
                              ELSE <<"failed to init secrets">>)
         /\ cur.rules = <<>> /\ cur.listed = {}
         /\ \A u \in SrcFiles : cur.dispatched[u] = 0
         /\ cur.writes = {} /\ cur.recorded = {}

\* C15 witness: a rule file was added between two ticks, the second tick
\* reloaded, re-initialized the secrets of both rules and is dispatching.
C15_Witness ==
    /\ tickNo = 2 /\ pc = "notify" /\ changedSeen.changed
    /\ Rules = <<"r1", "r2">> /\ Len(secrets) = 4
    /\ secrets[4] = <<"Dest", "r2">>

\* a step of the tick failed: the reload, the secrets, a listing, the read of
\* the ledger, a dispatch or the write of the ledger
StepFailed == cur.stepFailed # "none" \/ cur.failed # {}

\* C16: when Tick has returned, its response has the error status exactly
\* when a step of the tick failed, and then a non-empty Error; otherwise the
\* status is ok and the Error is empty.
C16_ErrorsSurface ==
    (tickNo >= 1 /\ cur.done) =>
        /\ response.Status = "error" <=> StepFailed
        /\ response.Status = "error" => response.Error # NoErr
        /\ response.Status # "error" => (response.Status = "ok" /\ response.Error = NoErr)

\* C16 witness: a tick whose read of the ledger failed has returned a
\* response with the error status and the wrapped error.
C16_Witness ==
    /\ tickNo >= 1 /\ cur.done /\ cur.stepFailed = "pending"
    /\ response.Status = "error"
    /\ response.Error = <<"failed to read pending resource", "failed to load ledger">>

\* the batches of pending objects of the tick that were processed without
\* error: all of them, but for the last when a dispatch or the write failed
DoneBatches ==
    IF cur.failed # {} \/ cur.stepFailed = "write"
    THEN SubSeq(cur.batches, 1, Len(cur.batches) - 1)
    ELSE cur.batches

BatchComplete(k) == k < Len(cur.batches) \/ pc # "notify"

\* where an object of the batch in notifyAll is: not yet sent, in the queue,
\* in a worker, or notified
Places(i) ==
    LET o == pending[i]
    IN (IF i > enqueued THEN {"unsent"} ELSE {})
       \cup (IF \E j \in 1..Len(queue) : queue[j] = o THEN {"queued"} ELSE {})
       \cup (IF o \in busy THEN {"worker"} ELSE {})
       \cup (IF o \in cur.ok \cup cur.failed THEN {"notified"} ELSE {})

\* C18: every pending object of a batch is dispatched at most once; while
\* notifyAll runs it is in exactly one place (not yet sent, in the queue,
\* in one worker, notified) and in the queue at most once; once notifyAll is
\* over it has been dispatched exactly once, whether or not a dispatch of
\* the batch failed.
C18_ExactlyOnceDispatch ==
    /\ \A k \in 1..Len(cur.batches) :
         \A i \in 1..Len(cur.batches[k].pending) :
            LET o == cur.batches[k].pending[i]
            IN /\ cur.dispatched[o.url] <= 1
               /\ BatchComplete(k) =>
                    (cur.dispatched[o.url] = 1 /\ o \in cur.ok \cup cur.failed)
    /\ pc = "notify" =>
         \A i \in 1..Len(pending) :
            /\ Cardinality(Places(i)) = 1
            /\ Cardinality({j \in 1..Len(queue) : queue[j] = pending[i]}) <= 1
            /\ cur.dispatched[pending[i].url]
                 = (IF pending[i] \in busy \cup cur.ok \cup cur.failed THEN 1 ELSE 0)

\* C18 witness: notifyAll is over; one object of the batch failed and the
\* other was taken from the queue after that failure and dispatched once.
C18_Witness ==
    /\ cur.done /\ cur.failed # {} /\ cur.lateTakes # {}
    /\ \A o \in cur.lateTakes : cur.dispatched[o.url] = 1 /\ o \notin cur.failed
    /\ Len(pending) = 2

\* notifyAll of the worker-pool build has returned, every worker gone
PoolReturned ==
    /\ pool.at = "done"
    /\ pool.n > 0 => pool.exited = Limit /\ pool.wg = 0 /\ pool.results = pool.n

\* notifyAll of the one-goroutine-per-object build has returned and each of
\* its goroutines has sent its result and is gone
FanoutReturned ==
    /\ fanout.at = "done"
    /\ fanout.finished = fanout.n /\ fanout.wg = 0
    /\ fanout.inNotify = 0 /\ fanout.ok = 0 /\ fanout.failed = 0

\* no send of notifyAll has to wait: the queue has room for the producer and
\* the error channel has room for every goroutine that holds a result
SendsNeverWait ==
    /\ (pool.at = "send" /\ pool.sent < pool.n) => pool.q < queueCap(pool.n)
    /\ pool.inNotify > 0 => pool.results < errorChannelCap(pool.n)
    /\ (fanout.at # "absent" /\ fanout.ok + fanout.failed > 0)
         => Len(fanout.errors) < errorsCap(fanout.n)

\* C19: for every number of pending objects and every mix of results, under
\* a fair scheduler and with every notify returning, no send of notifyAll
\* ever waits, and the call ends: in the worker-pool build notifyAll returns
\* after all Limit workers left; in the one-goroutine-per-object build
\* notifyAll returns, also on a first error, and every goroutine gets its
\* result sent and ends.
C19_NotifyAllTerminates ==
    /\ []SendsNeverWait
    /\ <>(PoolReturned \/ pool.at = "absent")
    /\ <>(FanoutReturned \/ fanout.at = "absent")

\* C19 witness: the worker-pool notifyAll returned an error for more than
\* Limit objects, or the one-goroutine-per-object notifyAll returned on a
\* first error while results were still unread in the channel
C19_Witness ==
    \/ PoolReturned /\ pool.n > Limit /\ pool.ret = "error"
    \/ /\ FanoutReturned /\ fanout.ret = "error"
       /\ fanout.read < fanout.n /\ Len(fanout.errors) > 0
\* the directories appendResources lists when started at the URLs S: S and,
\* over and over, each directory entry of their listings that is not the
\* first entry
RECURSIVE Descended(_, _)
Descended(list, S) ==
    LET T == S \cup {list[d][i].url : <<d, i>> \in
                       {x \in S \X (2..MaxEntries + 1) :
                          x[2] <= Len(list[x[1]]) /\ list[x[1]][x[2]].dir}}
    IN IF T = S THEN S ELSE Descended(list, T)

\* the URLs entry i of the listing of d brings to the candidates: nothing for
\* a first entry that is a directory, the matching files under any other
\* directory entry, the entry itself for a matching file
Brings(list, suffix, d, i) ==
    LET e == list[d][i]
    IN IF e.dir
       THEN IF i = 1 THEN {}
            ELSE {list[x][j].url : <<x, j>> \in
                    {y \in Descended(list, {e.url}) \X (1..MaxEntries + 1) :
                       /\ y[2] <= Len(list[y[1]])
                       /\ ~list[y[1]][y[2]].dir
                       /\ Match(suffix, y[1], list[y[1]][y[2]])}}
       ELSE IF Match(suffix, d, e) THEN {e.url} ELSE {}

\* the places of a URL in a sequence of objects
PlacesIn(result, u) == {k \in 1..Len(result) : result[k].url = u}

\* C20: when an appendResources call returns without error, the candidates
\* are exactly the matching non-directory entries of the listings of the
\* start URL and of every directory entry that is not the first of its
\* listing, each once; a first entry that is a directory brings nothing; and
\* what an earlier entry of a listing brings comes before what a later entry
\* of the same listing brings.
C20_CandidateEnumeration ==
    (walk.at = "done" /\ walk.out.err = NoErr) =>
        LET list == walk.list
            result == walk.out.result
            dirs == Descended(list, {"root"})
        IN /\ \A k \in 1..Len(result) : ~result[k].dir
           /\ {result[k].url : k \in 1..Len(result)}
                = UNION {Brings(list, walk.suffix, "root", i) : i \in 1..Len(list["root"])}
           /\ \A k \in 1..Len(result) : PlacesIn(result, result[k].url) = {k}
           /\ \A d \in dirs : \A i, j \in 1..Len(list[d]) :
                i < j => \A a \in Brings(list, walk.suffix, d, i),
                            b \in Brings(list, walk.suffix, d, j) :
                            \A ka \in PlacesIn(result, a), kb \in PlacesIn(result, b) :
                               ka < kb
           /\ \A d \in dirs : \A i \in 1..Len(list[d]) :
                (~list[d][i].dir /\ Match(walk.suffix, d, list[d][i]))
                    => PlacesIn(result, list[d][i].url) # {}

\* C20 witness: the listing of the root begins with a directory that is not
\* the root and holds another directory after it; the call passed over the
\* first, went into the second and returned a file of the second and a file
\* of the root, in the order of the listing.
C20_Witness ==
    /\ walk.at = "done" /\ walk.out.err = NoErr /\ walk.suffix = ""
    /\ Len(walk.list["root"]) = 3
    /\ walk.list["root"][1].url = "root/sub"
    /\ walk.list["root"][2].url = "root/sub2"
    /\ walk.list["root"][3].url = "root/a.txt"
    /\ walk.list["root/sub"] # <<>>
    /\ [k \in 1..Len(walk.out.result) |-> walk.out.result[k].url]
         = <<"root/sub2/d.txt", "root/a.txt">>
\* tick t ended with an error while it processed a rule
FailedAtRule(t) ==
    t.done /\ (t.failed # {} \/ t.stepFailed \in {"list", "pending", "write"})

\* the pending objects of the rule at which tick t failed, when it failed in
\* notifyAll or in AddProcessed
FailedBatch(t) ==
    IF t.failed # {} \/ t.stepFailed = "write"
    THEN Objects(t.batches[Len(t.batches)].pending)
    ELSE {}

\* C21: when a tick ends with an error at rule k, the objects it recorded
\* for the rules before k are still in the ledger, the response has status
\* error and still holds the Matched entry of each of those rules and the
\* copied URL of every successful dispatch; in the tick after it, an object
\* recorded by the failed tick, unchanged and within the retention horizon,
\* is dispatched zero times, while the pending objects of rule k, and every
\* listed object that neither the failed tick nor an earlier one recorded,
\* are selected as pending and dispatched when listed.
C21_NoRollback ==
    /\ FailedAtRule(cur) =>
         /\ response.Status = "error" /\ response.Error # NoErr
         /\ \A o \in cur.recorded : Fingerprint(o) \in LedgerFps
         /\ cur.recorded \cap FailedBatch(cur) = {}
         /\ \A b \in Objects(DoneBatches) :
               /\ Objects(b.pending) \subseteq cur.recorded
               /\ \E m \in 1..Len(response.Matched) :
                     /\ response.Matched[m].Resource = tickRules[b.rule]
                     /\ response.Matched[m].URLs = URLs(b.pending)
         /\ \A o \in cur.ok : o.url \in response.Copied
    /\ (FailedAtRule(prev) /\ tickNo >= 2) =>
         /\ \A o \in prev.recorded :
               (objMod[o.url] = o.mod /\ now - prev.at <= Retention)
                  => cur.dispatched[o.url] = 0 /\ Fingerprint(o) \in LedgerFps
         /\ SelectedAgain(FailedBatch(prev))
         /\ SelectedAgain({o \in cur.listed :
                            /\ o \notin prev.recorded
                            /\ Fingerprint(o) \in LedgerFps => o \in cur.recorded})

\* C21 witness: tick 1 recorded the object of its first rule and failed in
\* the dispatch of its second rule; tick 2 listed both objects unchanged,
\* dispatched the recorded one zero times and the other one once, and ended
\* without error.
C21_Witness ==
    /\ tickNo = 2 /\ cur.done /\ response.Status = "ok"
    /\ FailedAtRule(prev) /\ prev.failed # {} /\ Len(prev.rules) = 2
    /\ \E o \in prev.recorded \cap cur.listed : cur.dispatched[o.url] = 0
    /\ \E o \in FailedBatch(prev) \cap cur.listed :
         cur.dispatched[o.url] = 1 /\ o \in cur.recorded
\* the list Run has to take: OnFailure when the context has an error
Chosen == IF job.hasError THEN job.c.OnFailure ELSE job.c.OnSuccess
ChosenName == IF job.hasError THEN "OnFailure" ELSE "OnSuccess"

\* action i of the chosen list ends with an error: its Do fails, or, the
\* context having an error, its WriteError fails
Fails(i) == Chosen[i].doFails \/ (job.hasError /\ Chosen[i].writeFails)

\* the actions of the chosen list that Run reaches: those up to the first
\* one that ends with an error
Reached == {i \in 1..Len(Chosen) : \A j \in 1..(i - 1) : ~Fails(j)}

\* the places in job.calls of a call of action i
CallsOf(i, call) ==
    {k \in 1..Len(job.calls) : job.calls[k].i = i /\ job.calls[k].call = call}

\* C22: every call Run makes is on an action of the list chosen by the
\* context's error, never of the other list; and when Run has returned, Do
\* was called once on each action up to the first that ended with an error
\* and on no later one, in list order; WriteError was called, right after
\* the action's Do, exactly on the reached actions whose Do succeeded when
\* the context has an error, and never when it has none; Run returned the
\* error of the first failing action, and nil when there is none, without
\* any call when the chosen list is empty.
C22_ActionsRun ==
    /\ \A k \in 1..Len(job.calls) :
          /\ job.calls[k].list = ChosenName
          /\ job.calls[k].i \in Reached
          /\ job.calls[k].call = "WriteError" =>
                /\ job.hasError /\ ~Chosen[job.calls[k].i].doFails
                /\ k > 1 /\ job.calls[k - 1] = [job.calls[k] EXCEPT !.call = "Do"]
          /\ \A m \in 1..(k - 1) : job.calls[m].i <= job.calls[k].i
    /\ job.at = "done" =>
          /\ \A i \in 1..Len(Chosen) :
                /\ Cardinality(CallsOf(i, "Do")) = (IF i \in Reached THEN 1 ELSE 0)
                /\ Cardinality(CallsOf(i, "WriteError"))
                     = (IF i \in Reached /\ job.hasError /\ ~Chosen[i].doFails
                        THEN 1 ELSE 0)
          /\ Chosen = <<>> => job.calls = <<>> /\ job.ret = NoErr
          /\ job.ret = NoErr <=> \A i \in 1..Len(Chosen) : ~Fails(i)
          /\ \A i \in Reached :
                Fails(i) =>
                   job.ret = (IF Chosen[i].doFails
                              THEN <<"action failed", ChosenName>>
                              ELSE <<"failed to write error", ChosenName>>)

\* C22 witness: the context has an error and OnFailure has two actions; the
\* Do and the WriteError of the first succeeded, the Do of the second
\* succeeded and its WriteError failed, and Run returned that error, while
\* OnSuccess has an action that was not called.
C22_Witness ==
    /\ job.at = "done" /\ job.hasError
    /\ Len(job.c.OnFailure) = 2 /\ Len(job.c.OnSuccess) >= 1
    /\ Len(job.calls) = 4
    /\ job.calls[4] = [list |-> "OnFailure", i |-> 2, call |-> "WriteError"]
    /\ job.ret = <<"failed to write error", "OnFailure">>
====
